---- MODULE Spec2Model ----
(***************************************************************************)
(* Model of scripts/java_analyzer.py: the per-class metric functions, the  *)
(* inheritance maps built by analyze_java_metrics, the DIT/NOC queries and *)
(* aggregate_metrics.                                                      *)
(*                                                                         *)
(* Python values: a dict is a function whose DOMAIN is its key set, a list *)
(* is a sequence, None is the value None below.                            *)
(***************************************************************************)
EXTENDS Integers, Sequences, FiniteSets, TLC

\* ---------------------------------------------------------------- bounds
MaxFiles == 2      \* files yielded by os.walk in one run
MaxTypes == 2      \* type declarations parsed in one run
MaxMethods == 3    \* methods of a class in the per-class metric checks
MaxRecords == 7    \* records handed to aggregate_metrics called alone
MaxSessions == 3   \* Session objects made by one DatabaseHandler

\* ---------------------------------------------------------------- values
None == "<None>"
ClassNames == {"A", "B"}
ExternalName == "Ext"
RecordSuper == "java.lang.Record"
SuperNames == ClassNames \cup {ExternalName}
AllNames == SuperNames \cup {RecordSuper}

Put(d, k, v) == [x \in (DOMAIN d) \cup {k} |-> IF x = k THEN v ELSE d[x]]
Get(d, k) == IF k \in DOMAIN d THEN d[k] ELSE None
HasKey(d, k) == k \in DOMAIN d
Truthy(v) == v # None /\ v # ""
EmptyDict == [x \in {} |-> None]
\* d[k] on a defaultdict(list), as a value: the list, empty when k is missing.
Get2(d, k) == IF k \in DOMAIN d THEN d[k] ELSE <<>>

Max(a, b) == IF a >= b THEN a ELSE b

SeqsUpTo(S, n) == UNION {[1..k -> S] : k \in 0..n}

\* ------------------------------------------------ Python numbers
\* An int as aggregate_metrics stores it in an avg_ field, a float (an IEEE
\* 754 double: Precision significant bits, the first of them 1, most
\* significant first, times 2^exp at the first bit; no bits at all for
\* 0.0), and the exception of a division by zero.
Precision == 53
HalfWord == 27
PyInt(v) == [type |-> "int", value |-> v]
PyFloat(bits, exp) == [type |-> "float", bits |-> bits, exp |-> exp]
FloatZero == PyFloat(<<>>, 0)
ZeroDivisionError == [type |-> "ZeroDivisionError"]

\* a / b scaled by powers of two until b <= a < 2b: <<a, b, exponent>>.
RECURSIVE Normalize(_, _, _)
Normalize(a, b, e) ==
    IF a < b THEN Normalize(2 * a, b, e - 1)
    ELSE IF a >= 2 * b THEN Normalize(a, 2 * b, e + 1)
    ELSE <<a, b, e>>

\* 2^k mod b for k <= 2 * HalfWord, computed within 32-bit ints (b < 2^15).
Pow2Mod(k, b) ==
    IF k <= HalfWord THEN (2 ^ k) % b
    ELSE (((2 ^ HalfWord) % b) * ((2 ^ (k - HalfWord)) % b)) % b

\* What is left of r (r < b < 2^15) after k bits of the quotient r / b are
\* taken: r * 2^k mod b.
Remainder(r, b, k) == ((r % b) * Pow2Mod(k, b)) % b

\* The first k bits of the quotient r / b (r < b), by long division.
DivBits(r, b, k) ==
    [i \in 1..k |-> IF 2 * Remainder(r, b, i - 1) >= b THEN 1 ELSE 0]

\* bits + 1 as a binary number of the same length: <<bits, carry out>>.
Increment(bits) ==
    LET zeros == {i \in 1..Len(bits) : bits[i] = 0} IN
    IF zeros = {} THEN <<[i \in 1..Len(bits) |-> 0], 1>>
    ELSE LET last == CHOOSE i \in zeros : \A j \in zeros : j <= i IN
         <<[i \in 1..Len(bits) |->
               IF i < last THEN bits[i] ELSE IF i = last THEN 1 ELSE 0], 0>>

\* Round to nearest, ties to even: kept are the Precision leading bits of a
\* value with exponent exp, guard is the bit after them and sticky says
\* whether anything non-zero follows the guard bit.
RoundNearestEven(kept, exp, guard, sticky) ==
    IF guard = 1 /\ (sticky \/ kept[Len(kept)] = 1)
    THEN LET up == Increment(kept) IN
         IF up[2] = 1
         THEN PyFloat(<<1>> \o SubSeq(up[1], 1, Len(kept) - 1), exp + 1)
         ELSE PyFloat(up[1], exp)
    ELSE PyFloat(kept, exp)

\* The binary digits of an int v >= 0, most significant first.
RECURSIVE IntBits(_)
IntBits(v) == IF v = 0 THEN <<>> ELSE IntBits(v \div 2) \o <<v % 2>>

Zeros(k) == [i \in 1..k |-> 0]

\* float(v) for an int 0 <= v < 2^Precision.
IntToFloat(v) ==
    IF v = 0 THEN FloatZero
    ELSE PyFloat(IntBits(v) \o Zeros(Precision - Len(IntBits(v))),
                 Len(IntBits(v)) - 1)

\* a // b as a float: the quotient rounded down to an integer.
FloorDiv(a, b) == IF b = 0 THEN ZeroDivisionError ELSE IntToFloat(a \div b)

\* a / b for ints a >= 0, b >= 0: the double nearest to the quotient.
TrueDiv(a, b) ==
    IF b = 0 THEN ZeroDivisionError
    ELSE IF a = 0 THEN FloatZero
    ELSE LET nm == Normalize(a, b, 0)
             r == nm[1] - nm[2]
             q == DivBits(r, nm[2], Precision)
         IN RoundNearestEven(<<1>> \o SubSeq(q, 1, Precision - 1), nm[3],
                             q[Precision], Remainder(r, nm[2], Precision) # 0)

\* The int a sequence of binary digits stands for (fewer than 31 digits).
BitsToInt(bits) ==
    LET v[i \in 0..Len(bits)] == IF i = 0 THEN 0 ELSE 2 * v[i - 1] + bits[i]
    IN v[Len(bits)]

\* The k low binary digits of an int v >= 0, most significant first.
LowBits(v, k) == [j \in 1..k |-> (v \div (2 ^ (k - j))) % 2]

\* bits * n as a binary number (as many bits as it takes), for an int
\* 1 <= n < 16 and more than HalfWord bits: the HalfWord low bits are
\* multiplied first and what they carry is added to the product of the rest.
MulBits(bits, n) ==
    LET cut == Len(bits) - HalfWord
        lo == BitsToInt(SubSeq(bits, cut + 1, Len(bits))) * n
        hi == BitsToInt(SubSeq(bits, 1, cut)) * n + lo \div (2 ^ HalfWord)
    IN IntBits(hi) \o LowBits(lo % (2 ^ HalfWord), HalfWord)

\* x * n for a float x >= 0 and an int n >= 1.
FloatTimesInt(x, n) ==
    IF x.bits = <<>> THEN FloatZero
    ELSE LET p == MulBits(x.bits, n)
             extra == Len(p) - Precision
         IN IF extra = 0 THEN PyFloat(p, x.exp)
            ELSE RoundNearestEven(
                     SubSeq(p, 1, Precision), x.exp + extra, p[Precision + 1],
                     \E i \in (Precision + 2)..Len(p) : p[i] = 1)

\* The float after x (x > 0).
FloatSucc(x) ==
    LET up == Increment(x.bits) IN
    IF up[2] = 1 THEN PyFloat(<<1>> \o Zeros(Precision - 1), x.exp + 1)
    ELSE PyFloat(up[1], x.exp)

\* ------------------------------------------------- source text and LOC
\* A line is a sequence of characters; a text is a sequence of lines
\* (what code.splitlines() yields).
IsSpace(c) == c \in {" ", "\t"}

RECURSIVE LStrip(_)
LStrip(line) ==
    IF line # <<>> /\ IsSpace(Head(line)) THEN LStrip(Tail(line)) ELSE line

RECURSIVE RStrip(_)
RStrip(line) ==
    IF line # <<>> /\ IsSpace(line[Len(line)])
    THEN RStrip(SubSeq(line, 1, Len(line) - 1))
    ELSE line

Strip(line) == RStrip(LStrip(line))

StartsWithComment(line) == Len(line) >= 2 /\ line[1] = "/" /\ line[2] = "/"

CountsAsCode(line) == Strip(line) # <<>> /\ ~StartsWithComment(Strip(line))

RECURSIVE calculate_LOC(_)
calculate_LOC(code) ==
    IF code = <<>> THEN 0
    ELSE (IF CountsAsCode(Head(code)) THEN 1 ELSE 0) + calculate_LOC(Tail(code))

\* The texts of the type declarations a file can hold.
TextOneLine == << <<"c", " ", "{", "}">> >>
TextCommented ==
    << <<"c", " ", "{">>, <<>>, <<" ", "/", "/", "x">>, <<" ", " ">>,
       <<" ", "x", " ", "/", "/">>, <<"}">> >>
TextPool == {TextOneLine, TextCommented}

RECURSIVE Concat(_)
Concat(texts) == IF texts = <<>> THEN <<>> ELSE Head(texts) \o Concat(Tail(texts))

\* ------------------------------------------------ per-class metrics
\* A method: whether it has a body, the statements findAll counts in it,
\* the scopes of its call expressions (None for an unscoped call) and the
\* names of its FieldAccessExpr and NameExpr nodes.
Method(body, ifs, fors, whiles, switches, calls, names) ==
    [body |-> body, ifs |-> ifs, fors |-> fors, whiles |-> whiles,
     switches |-> switches, calls |-> calls, names |-> names]

\* A class or record declaration: its declared field names and methods.
Cid(fields, methods) == [fields |-> fields, methods |-> methods]

calculate_NOM(cid) == Len(cid.methods)

MethodComplexity(m) ==
    1 + (IF m.body THEN m.ifs + m.fors + m.whiles + m.switches ELSE 0)

RECURSIVE SumComplexity(_)
SumComplexity(ms) ==
    IF ms = <<>> THEN 0 ELSE MethodComplexity(Head(ms)) + SumComplexity(Tail(ms))

calculate_WMC(cid) == SumComplexity(cid.methods)

MethodCalls(m) == IF m.body THEN Len(m.calls) ELSE 0

RECURSIVE SumCalls(_)
SumCalls(ms) == IF ms = <<>> THEN 0 ELSE MethodCalls(Head(ms)) + SumCalls(Tail(ms))

\* calculate_RFC without the methods themselves (rfc started at 0).
calculate_RFC_CallsOnly(cid) == SumCalls(cid.methods)

calculate_RFC(cid) == Len(cid.methods) + SumCalls(cid.methods)

MethodScopes(m) ==
    IF m.body THEN {m.calls[i] : i \in {j \in 1..Len(m.calls) : Truthy(m.calls[j])}}
    ELSE {}

called_classes(cid) == UNION {MethodScopes(cid.methods[i]) : i \in 1..Len(cid.methods)}

calculate_CBO(cid) == Cardinality(called_classes(cid))

accessed_fields(cid, m) ==
    IF m.body THEN {m.names[i] : i \in 1..Len(m.names)} \cap cid.fields ELSE {}

method_field_access(cid) ==
    [i \in 1..Len(cid.methods) |-> accessed_fields(cid, cid.methods[i])]

\* The loops of lines 237-245: i over range(n), j over range(i + 1, n),
\* with indices from 1. Returns <<P, Q>>.
RECURSIVE PairLoop(_, _, _, _, _)
PairLoop(mfa, i, j, P, Q) ==
    LET n == Len(mfa) IN
    IF i > n THEN <<P, Q>>
    ELSE IF j > n THEN PairLoop(mfa, i + 1, i + 2, P, Q)
    ELSE IF mfa[i] \cap mfa[j] # {} THEN PairLoop(mfa, i, j + 1, P, Q + 1)
    ELSE PairLoop(mfa, i, j + 1, P + 1, Q)

LCOM_PQ(cid) == PairLoop(method_field_access(cid), 1, 2, 0, 0)

\* calculate_LCOM returning P - Q as it is.
calculate_LCOM_NoClamp(cid) ==
    IF Len(cid.methods) < 2 THEN 0
    ELSE LET pq == LCOM_PQ(cid) IN pq[1] - pq[2]

calculate_LCOM(cid) ==
    IF Len(cid.methods) < 2 THEN 0
    ELSE LET pq == LCOM_PQ(cid) IN Max(pq[1] - pq[2], 0)

\* ------------------------------------------------ aggregate_metrics
MetricKeys == <<"LOC", "CBO", "RFC", "NOM", "WMC", "LCOM">>

SumField(key) ==
    CASE key = "LOC" -> "sum_LOC" [] key = "CBO" -> "sum_CBO"
      [] key = "RFC" -> "sum_RFC" [] key = "NOM" -> "sum_NOM"
      [] key = "WMC" -> "sum_WMC" [] key = "LCOM" -> "sum_LCOM"

AvgField(key) ==
    CASE key = "LOC" -> "avg_LOC" [] key = "CBO" -> "avg_CBO"
      [] key = "RFC" -> "avg_RFC" [] key = "NOM" -> "avg_NOM"
      [] key = "WMC" -> "avg_WMC" [] key = "LCOM" -> "avg_LCOM"

\* Lines 73-83: agg as first built, for total classes.
InitialAggregate(total) ==
    [total_classes |-> total,
     sum_LOC |-> 0, avg_LOC |-> PyInt(0),
     sum_CBO |-> 0, avg_CBO |-> PyInt(0),
     sum_RFC |-> 0, avg_RFC |-> PyInt(0),
     sum_NOM |-> 0, avg_NOM |-> PyInt(0),
     sum_WMC |-> 0, avg_WMC |-> PyInt(0),
     sum_LCOM |-> 0, avg_LCOM |-> PyInt(0),
     max_DIT |-> 0,
     max_NOC |-> 0]

\* Lines 89-96: one iteration of the loop over class_info.values().
AddRecord(a, m) ==
    [a EXCEPT !.sum_LOC = @ + m.LOC,
              !.sum_CBO = @ + m.CBO,
              !.sum_RFC = @ + m.RFC,
              !.sum_NOM = @ + m.NOM,
              !.sum_WMC = @ + m.WMC,
              !.sum_LCOM = @ + m.LCOM,
              !.max_DIT = Max(@, m.DIT),
              !.max_NOC = Max(@, m.NOC)]

RECURSIVE SumLoop(_, _)
SumLoop(a, values) ==
    IF values = <<>> THEN a ELSE SumLoop(AddRecord(a, Head(values)), Tail(values))

\* Lines 98-99: the loop over the six keys.
RECURSIVE AverageLoop(_, _)
AverageLoop(a, keys) ==
    IF keys = <<>> THEN a
    ELSE AverageLoop(
             Put(a, AvgField(Head(keys)), TrueDiv(a[SumField(Head(keys))], a.total_classes)),
             Tail(keys))

aggregate_metrics(values) ==
    LET a == InitialAggregate(Len(values)) IN
    IF a.total_classes = 0 THEN a
    ELSE AverageLoop(SumLoop(a, values), MetricKeys)

\* ------------------------------------------------ analyze_java_metrics
\* A type declaration of a compilation unit: kind is "class", "interface"
\* or "record"; extended is getExtendedTypes() (names only).
TypeDecl(kind, name, extended, cid) ==
    [kind |-> kind, name |-> name, extended |-> extended, cid |-> cid]

EmptyCid == Cid({}, <<>>)
SampleCid ==
    Cid({"f"},
        << Method(TRUE, 1, 0, 0, 0, <<"a", None>>, <<"f">>),
           Method(FALSE, 0, 0, 0, 0, <<>>, <<>>) >>)
DriverCids == {EmptyCid, SampleCid}

TypeDecls ==
    {TypeDecl(k, n, e, c) :
        k \in {"class", "interface", "record"}, n \in ClassNames,
        e \in SeqsUpTo(SuperNames, 1), c \in DriverCids}

VARIABLES
    phase,            \* where analyze_java_metrics is
    files,            \* the .java files os.walk yields: whether each parses
    fileIdx,          \* index of the next file of the walk
    code,             \* texts of the type declarations of the open file
    typeIdx,          \* index of the next type declaration of the open file
    ntypes,           \* type declarations processed so far in the run
    declared,         \* names of the classes and records processed so far
    class_info,       \* dict: class name -> metrics
    order,            \* insertion order of class_info's keys
    inheritance_map,  \* dict: class name -> superclass name
    children_map,     \* defaultdict(list): name -> list of subclasses
    queryIdx,         \* index into order of the class being queried
    ditCls,           \* calculate_DIT: cls
    depth,            \* calculate_DIT: depth
    output,           \* the documents emitted so far (output_data)
    ditArg,           \* the class a direct call of calculate_DIT was given
    ditResult,        \* dict: class -> what calculate_DIT returned for it
    cid,              \* the declaration the per-class metrics are taken of
    metrics,          \* the per-class metrics of cid, once computed
    records,          \* class_info.values() handed to aggregate_metrics
    agg,              \* what aggregate_metrics returned
    engine,           \* DatabaseHandler: self.engine
    config,           \* DatabaseHandler: self.config
    session,          \* DatabaseHandler: self.session
    use_context_manager, \* DatabaseHandler: self.use_context_manager
    has_section,      \* whether the config file holds the handler's section
    engines,          \* engines made by create_engine so far
    sessions,         \* the Session objects made so far, by number
    yielded,          \* the session the open get_session block was given
    caller,           \* who opened the get_session block
    returned          \* the last call that ended and how it ended

drvVars == <<phase, files, fileIdx, code, typeIdx, ntypes, declared,
             class_info, order, queryIdx, output>>
mapVars == <<inheritance_map, children_map>>
ditVars == <<ditCls, depth>>
fnVars == <<ditArg, ditResult>>
metVars == <<cid, metrics>>
aggVars == <<records, agg>>
dbVars == <<engine, config, session, use_context_manager, has_section,
            engines, sessions, yielded, caller, returned>>
auxVars == <<fnVars, metVars, aggVars, dbVars>>
vars == <<drvVars, mapVars, ditVars, auxVars>>

\* Lines 28-31 and 122: None for self.engine and self.config, and no
\* attribute self.session (it is set only by __enter__).
NoEngine == 0
NoSession == 0
NoCall == [op |-> "", raised |-> FALSE]

\* No DatabaseHandler has been constructed.
NoHandler ==
    /\ engine = NoEngine
    /\ config = FALSE
    /\ session = NoSession
    /\ use_context_manager = TRUE
    /\ has_section = TRUE
    /\ engines = 0
    /\ sessions = <<>>
    /\ yielded = NoSession
    /\ caller = ""
    /\ returned = NoCall

DriverInit ==
    /\ phase = "walk"
    /\ files \in SeqsUpTo(BOOLEAN, MaxFiles)
    /\ fileIdx = 1
    /\ code = <<>>
    /\ typeIdx = 1
    /\ ntypes = 0
    /\ declared = {}
    /\ class_info = EmptyDict
    /\ order = <<>>
    /\ inheritance_map = EmptyDict
    /\ children_map = EmptyDict
    /\ queryIdx = 1
    /\ ditCls = None
    /\ depth = 0
    /\ output = <<>>
    /\ ditArg = None
    /\ ditResult = EmptyDict
    /\ cid = None
    /\ metrics = None
    /\ records = <<>>
    /\ agg = None
    /\ NoHandler

\* Lines 321-327: the file is read; parser.parse raises: print and continue.
ParseFail ==
    /\ phase = "walk"
    /\ fileIdx <= Len(files)
    /\ ~files[fileIdx]
    /\ fileIdx' = fileIdx + 1
    /\ UNCHANGED <<phase, files, code, typeIdx, ntypes, declared, class_info,
                   order, queryIdx, output, mapVars, ditVars, auxVars>>

\* Lines 321-324: the file is read and parses into a compilation unit
\* holding one type declaration per text of the file.
ParseOk ==
    /\ phase = "walk"
    /\ fileIdx <= Len(files)
    /\ files[fileIdx]
    /\ \E texts \in SeqsUpTo(TextPool, MaxTypes - ntypes) :
          code' = texts
    /\ typeIdx' = 1
    /\ phase' = "file"
    /\ UNCHANGED <<files, fileIdx, ntypes, declared, class_info, order,
                   queryIdx, output, mapVars, ditVars, auxVars>>

\* Lines 330-342: the name and superclass of a class or record declaration.
IsClassLike(td) == td.kind = "class" \/ td.kind = "record"

SuperclassOf(td) ==
    IF td.kind = "class"
    THEN (IF td.extended # <<>> THEN td.extended[1] ELSE None)
    ELSE RecordSuper

\* Lines 344-346.
RecordInheritance(imap, name, superclass) ==
    IF Truthy(superclass) THEN Put(imap, name, superclass) ELSE imap

RecordChild(cmap, name, superclass) ==
    IF Truthy(superclass)
    THEN Put(cmap, superclass, Append(Get2(cmap, superclass), name))
    ELSE cmap

\* ClassRecord made to fill DIT and NOC in at once, from the maps as they
\* are when the declaration is processed.
ClassRecordEager(td, text) ==
    [LOC |-> calculate_LOC(text),
     CBO |-> calculate_CBO(td.cid),
     RFC |-> calculate_RFC(td.cid),
     NOM |-> calculate_NOM(td.cid),
     WMC |-> calculate_WMC(td.cid),
     LCOM |-> calculate_LCOM(td.cid),
     Superclass |-> IF td.kind = "class"
                    THEN (IF td.extended # <<>> THEN td.extended[1] ELSE None)
                    ELSE "java.lang.Record",
     DIT |-> IF td.kind = "class" /\ td.extended = <<>> THEN 0 ELSE 1,
     NOC |-> 0]

\* Lines 348-363.
ClassRecord(td, text) ==
    [LOC |-> calculate_LOC(text),
     CBO |-> calculate_CBO(td.cid),
     RFC |-> calculate_RFC(td.cid),
     NOM |-> calculate_NOM(td.cid),
     WMC |-> calculate_WMC(td.cid),
     LCOM |-> calculate_LCOM(td.cid),
     Superclass |-> SuperclassOf(td)]

\* Lines 329-363: one iteration of the loop over cu.getTypes().
ProcessType ==
    /\ phase = "file"
    /\ typeIdx <= Len(code)
    /\ \E td \in TypeDecls :
          IF IsClassLike(td)
          THEN /\ inheritance_map' =
                     RecordInheritance(inheritance_map, td.name, SuperclassOf(td))
               /\ children_map' =
                     RecordChild(children_map, td.name, SuperclassOf(td))
               /\ class_info' = Put(class_info, td.name, ClassRecord(td, Concat(code)))
               /\ order' = IF td.name \in DOMAIN class_info THEN order
                           ELSE Append(order, td.name)
               /\ declared' = declared \cup {td.name}
          ELSE UNCHANGED <<inheritance_map, children_map, class_info, order, declared>>
    /\ typeIdx' = typeIdx + 1
    /\ ntypes' = ntypes + 1
    /\ UNCHANGED <<phase, files, fileIdx, code, queryIdx, output, ditVars, auxVars>>

\* The loop over cu.getTypes() ends; the walk goes on to the next file.
CloseFile ==
    /\ phase = "file"
    /\ typeIdx > Len(code)
    /\ phase' = "walk"
    /\ fileIdx' = fileIdx + 1
    /\ code' = <<>>
    /\ UNCHANGED <<files, typeIdx, ntypes, declared, class_info, order,
                   queryIdx, output, mapVars, ditVars, auxVars>>

\* os.walk is exhausted; line 365 starts the loop over class_info.
EndWalk ==
    /\ phase = "walk"
    /\ fileIdx > Len(files)
    /\ phase' = "query"
    /\ queryIdx' = 1
    /\ UNCHANGED <<files, fileIdx, code, typeIdx, ntypes, declared, class_info,
                   order, output, mapVars, ditVars, auxVars>>

\* Line 261 with depth counting the class itself.
DITEnterFromOne(cls) ==
    /\ ditCls' = cls
    /\ depth' = 1

\* Lines 250, 261: calculate_DIT is entered.
DITEnter(cls) ==
    /\ ditCls' = cls
    /\ depth' = 0

\* Line 366 calls calculate_DIT(cls, inheritance_map); line 261.
QueryStart ==
    /\ phase = "query"
    /\ queryIdx <= Len(order)
    /\ phase' = "dit"
    /\ DITEnter(order[queryIdx])
    /\ UNCHANGED <<files, fileIdx, code, typeIdx, ntypes, declared, class_info,
                   order, queryIdx, output, mapVars, auxVars>>

\* Line 262: while inheritance_map.get(cls).
DITCond == Truthy(Get(inheritance_map, ditCls))

\* Lines 263-264: one iteration of the loop. depth is counted exactly as far
\* as two past the number of keys of inheritance_map and from there on only
\* its parity is kept: a walk that has made more hops than there are keys
\* has been at some key twice and, the map being fixed, goes round for ever,
\* so its count is never returned.
DITLoop ==
    /\ DITCond
    /\ ditCls' = inheritance_map[ditCls]
    /\ depth' = IF depth <= Cardinality(DOMAIN inheritance_map) + 1
                THEN depth + 1 ELSE depth - 1

QueryDITStep ==
    /\ phase = "dit"
    /\ DITLoop
    /\ UNCHANGED <<drvVars, mapVars, auxVars>>

\* Line 279: children_map[cls] on a defaultdict(list) inserts an empty list
\* for a missing key; the result is the length of the list.
NOCLookup(cmap, cls) == IF cls \in DOMAIN cmap THEN cmap ELSE Put(cmap, cls, <<>>)

calculate_NOC(cmap, cls) == Len(NOCLookup(cmap, cls)[cls])

\* Line 265 returns depth into class_info[cls]["DIT"]; line 367.
QueryFinish ==
    /\ phase = "dit"
    /\ ~DITCond
    /\ LET cls == order[queryIdx] IN
          /\ class_info' =
                Put(class_info, cls,
                    Put(Put(class_info[cls], "DIT", depth),
                        "NOC", calculate_NOC(children_map, cls)))
          /\ children_map' = NOCLookup(children_map, cls)
    /\ queryIdx' = queryIdx + 1
    /\ phase' = "query"
    /\ UNCHANGED <<files, fileIdx, code, typeIdx, ntypes, declared, order,
                   output, inheritance_map, ditVars, auxVars>>

\* class_info.values(): the records in insertion order of their keys.
Values(info, keys) == [i \in 1..Len(keys) |-> info[keys[i]]]

\* Lines 369-383: output_data is built, with the aggregate when --aggregate
\* is given, and emitted. convert_java_types returns the ints, strings and
\* None of the records as they are.
Emit ==
    /\ phase = "query"
    /\ queryIdx > Len(order)
    /\ \E aggregate \in BOOLEAN :
          output' = IF aggregate
                    THEN <<[classes |-> class_info,
                            aggregated_metrics |->
                                aggregate_metrics(Values(class_info, order))]>>
                    ELSE <<[classes |-> class_info]>>
    /\ phase' = "done"
    /\ UNCHANGED <<files, fileIdx, code, typeIdx, ntypes, declared, class_info,
                   order, queryIdx, mapVars, ditVars, auxVars>>

\* ------------------------------------------- calculate_DIT called alone
DitMaps == UNION {[K -> AllNames] : K \in SUBSET SuperNames}

DITInit ==
    /\ phase = "fn_idle"
    /\ inheritance_map \in DitMaps
    /\ files = <<>>
    /\ fileIdx = 1
    /\ code = <<>>
    /\ typeIdx = 1
    /\ ntypes = 0
    /\ declared = {}
    /\ class_info = EmptyDict
    /\ order = <<>>
    /\ children_map = EmptyDict
    /\ queryIdx = 1
    /\ ditCls = None
    /\ depth = 0
    /\ output = <<>>
    /\ ditArg = None
    /\ ditResult = EmptyDict
    /\ cid = None
    /\ metrics = None
    /\ records = <<>>
    /\ agg = None
    /\ NoHandler

DITCall ==
    /\ phase = "fn_idle"
    /\ \E cls \in AllNames :
          /\ DITEnter(cls)
          /\ ditArg' = cls
    /\ phase' = "fn_dit"
    /\ UNCHANGED <<files, fileIdx, code, typeIdx, ntypes, declared, class_info,
                   order, queryIdx, output, mapVars, ditResult, metVars, aggVars,
                   dbVars>>

DITStep ==
    /\ phase = "fn_dit"
    /\ DITLoop
    /\ UNCHANGED <<drvVars, mapVars, auxVars>>

\* Line 265: return depth.
DITReturn ==
    /\ phase = "fn_dit"
    /\ ~DITCond
    /\ ditResult' = Put(ditResult, ditArg, depth)
    /\ phase' = "fn_idle"
    /\ UNCHANGED <<files, fileIdx, code, typeIdx, ntypes, declared, class_info,
                   order, queryIdx, output, mapVars, ditVars, ditArg, metVars,
                   aggVars, dbVars>>

DITNext == DITCall \/ DITStep \/ DITReturn

DITSpec == DITInit /\ [][DITNext]_vars

\* A call, once made, runs on: the interpreter does not stop mid-loop.
FairDITSpec == DITSpec /\ WF_vars(DITStep) /\ WF_vars(DITReturn)

\* C1: every call of calculate_DIT returns.
C1_DITTerminates == (phase = "fn_dit") ~> (phase = "fn_idle")

\* C6: what calculate_DIT returns for a class is 0 when no superclass is
\* recorded for it, and one more than what it returns for the recorded
\* superclass otherwise.
C6_DITRecurrence ==
    \A c \in DOMAIN ditResult :
        IF Truthy(Get(inheritance_map, c))
        THEN HasKey(ditResult, inheritance_map[c]) =>
                ditResult[c] = 1 + ditResult[inheritance_map[c]]
        ELSE ditResult[c] = 0

\* C6's case: a chain of two hops ending at a class outside the map, with
\* calculate_DIT called for each class on it.
C6_Witness ==
    /\ inheritance_map = [A |-> "B", B |-> ExternalName]
    /\ DOMAIN ditResult = {"A", "B", ExternalName}
    /\ ditResult["A"] = 2
    /\ ditResult[ExternalName] = 0

\* ------------------------------------- the per-class metrics called alone
CallLists == {<<>>, <<None>>, <<"a", "a">>, <<"a", "b", None>>}
NameLists == {<<>>, <<"f">>, <<"g", "x">>, <<"f", "g">>}
FieldSets == {{"f"}, {"f", "g"}}

\* A method without a body has no statements, calls or names.
MethodPool ==
    {Method(FALSE, 0, 0, 0, 0, <<>>, <<>>)} \cup
    {Method(TRUE, 1, 0, 1, 0, c, n) : c \in CallLists, n \in NameLists}

Cids == {Cid(f, ms) : f \in FieldSets, ms \in SeqsUpTo(MethodPool, MaxMethods)}

MetricInit ==
    /\ phase = "metric"
    /\ cid \in Cids
    /\ metrics = None
    /\ inheritance_map = EmptyDict
    /\ files = <<>>
    /\ fileIdx = 1
    /\ code = <<>>
    /\ typeIdx = 1
    /\ ntypes = 0
    /\ declared = {}
    /\ class_info = EmptyDict
    /\ order = <<>>
    /\ children_map = EmptyDict
    /\ queryIdx = 1
    /\ ditCls = None
    /\ depth = 0
    /\ output = <<>>
    /\ ditArg = None
    /\ ditResult = EmptyDict
    /\ records = <<>>
    /\ agg = None
    /\ NoHandler

\* Lines 349-353: the metrics taken of one declaration.
Measure ==
    /\ phase = "metric"
    /\ phase' = "measured"
    /\ metrics' = [NOM |-> calculate_NOM(cid),
                   WMC |-> calculate_WMC(cid),
                   RFC |-> calculate_RFC(cid),
                   CBO |-> calculate_CBO(cid),
                   LCOM |-> calculate_LCOM(cid)]
    /\ UNCHANGED <<files, fileIdx, code, typeIdx, ntypes, declared, class_info,
                   order, queryIdx, output, mapVars, ditVars, fnVars, cid,
                   aggVars, dbVars>>

MetricNext == Measure

MetricSpec == MetricInit /\ [][MetricNext]_vars

\* C8: CBO is at most RFC - NOM.
C8_CBOAtMostCalls ==
    phase = "measured" => metrics.CBO <= metrics.RFC - metrics.NOM

\* C8's case: a class with a bodiless method, scoped calls (one scope
\* twice) and an unscoped call.
C8_Witness ==
    /\ phase = "measured"
    /\ \E i \in 1..Len(cid.methods) : ~cid.methods[i].body
    /\ \E i \in 1..Len(cid.methods) : cid.methods[i].calls = <<"a", "b", None>>
    /\ \E i \in 1..Len(cid.methods) : cid.methods[i].calls = <<"a", "a">>
    /\ metrics.CBO = 2
    /\ metrics.RFC - metrics.NOM = 5

\* The unordered pairs of methods of cid, and those of them whose sets of
\* accessed declared fields meet.
UnorderedPairs == {S \in SUBSET (1..Len(cid.methods)) : Cardinality(S) = 2}
SharingPairs ==
    {S \in UnorderedPairs :
        \E i, j \in S :
            /\ i # j
            /\ accessed_fields(cid, cid.methods[i])
                   \cap accessed_fields(cid, cid.methods[j]) # {}}
RefQ == Cardinality(SharingPairs)
RefP == Cardinality(UnorderedPairs \ SharingPairs)

C9_WitnessDisjoint ==
    /\ phase = "measured"
    /\ Len(cid.methods) = 2
    /\ RefQ = 0
    /\ metrics.LCOM = 1

\* --------------------------------------- aggregate_metrics called alone
\* Records as analyze_java_metrics leaves them in class_info.
MetricRecord(loc, cbo, rfc, nom, wmc, lcom, dit, noc, superclass) ==
    [LOC |-> loc, CBO |-> cbo, RFC |-> rfc, NOM |-> nom, WMC |-> wmc,
     LCOM |-> lcom, Superclass |-> superclass, DIT |-> dit, NOC |-> noc]

RecordPool ==
    {MetricRecord(3, 0, 0, 0, 0, 0, 0, 1, None),
     MetricRecord(5, 1, 2, 1, 2, 1, 2, 0, "A"),
     MetricRecord(10, 2, 5, 3, 4, 0, 1, 2, "B")}

AggInit ==
    /\ phase = "agg"
    /\ records \in SeqsUpTo(RecordPool, MaxRecords)
    /\ agg = None
    /\ NoHandler
    /\ cid = None
    /\ metrics = None
    /\ inheritance_map = EmptyDict
    /\ files = <<>>
    /\ fileIdx = 1
    /\ code = <<>>
    /\ typeIdx = 1
    /\ ntypes = 0
    /\ declared = {}
    /\ class_info = EmptyDict
    /\ order = <<>>
    /\ children_map = EmptyDict
    /\ queryIdx = 1
    /\ ditCls = None
    /\ depth = 0
    /\ output = <<>>
    /\ ditArg = None
    /\ ditResult = EmptyDict

\* Lines 69-101: one call of aggregate_metrics.
Aggregate ==
    /\ phase = "agg"
    /\ agg' = aggregate_metrics(records)
    /\ phase' = "aggregated"
    /\ UNCHANGED <<files, fileIdx, code, typeIdx, ntypes, declared, class_info,
                   order, queryIdx, output, mapVars, ditVars, fnVars, metVars,
                   records, dbVars>>

AggNext == Aggregate

AggSpec == AggInit /\ [][AggNext]_vars

\* The sum of the metric key over the first n records.
RECURSIVE RefSum(_, _)
RefSum(key, n) == IF n = 0 THEN 0 ELSE RefSum(key, n - 1) + records[n][key]

\* avg * total == sum, as Python evaluates it.
ProductIsSum(key) ==
    /\ agg[AvgField(key)].type = "float"
    /\ FloatTimesInt(agg[AvgField(key)], agg.total_classes)
          = IntToFloat(agg[SumField(key)])

\* avg * total is sum, the float before it or the float after it.
ProductNearSum(key) ==
    /\ agg[AvgField(key)].type = "float"
    /\ LET p == FloatTimesInt(agg[AvgField(key)], agg.total_classes)
           t == IntToFloat(agg[SumField(key)])
       IN \/ p = t
          \/ FloatSucc(p) = t
          \/ p = FloatSucc(t)

AllKeys == {MetricKeys[i] : i \in 1..Len(MetricKeys)}

C10_WitnessEmpty ==
    /\ phase = "aggregated"
    /\ records = <<>>
    /\ agg.total_classes = 0
    /\ agg.avg_LOC = PyInt(0)

Init == DriverInit

Next ==
    \/ ParseFail
    \/ ParseOk
    \/ ProcessType
    \/ CloseFile
    \/ EndWalk
    \/ QueryStart
    \/ QueryDITStep
    \/ QueryFinish
    \/ Emit

Spec == Init /\ [][Next]_vars

\* The driver is one sequential thread: a step that can be taken is taken.
FairSpec == Spec /\ WF_vars(Next)

\* ------------------------------------------------------ driver claims
InList(x, list) == \E i \in 1..Len(list) : list[i] = x
Count(x, list) == Cardinality({i \in 1..Len(list) : list[i] = x})

\* C2: when some file fails to parse, the run still completes, having
\* walked past every file, with a record emitted for every class declared
\* in a parsed file; a failing file changes none of class_info,
\* inheritance_map and children_map.
C2_FailingFilesSkipped ==
    /\ [][ParseFail => (/\ class_info' = class_info
                        /\ inheritance_map' = inheritance_map
                        /\ children_map' = children_map)]_vars
    /\ (\E i \in 1..Len(files) : ~files[i]) =>
          <>(/\ phase = "done"
             /\ fileIdx = Len(files) + 1
             /\ Len(output) = 1
             /\ DOMAIN output[1].classes = declared)

\* C3: a class C is in children_map[S] iff inheritance_map[C] = S, and then
\* it is there exactly once.
C3_MapsConsistent ==
    \A c \in AllNames, s \in AllNames :
        /\ InList(c, Get2(children_map, s)) <=> Get(inheritance_map, c) = s
        /\ Get(inheritance_map, c) = s => Count(c, Get2(children_map, s)) = 1

\* C4: a superclass recorded for a class name is never changed by a later
\* step of the run.
C4_SuperclassKept ==
    [][\A c \in DOMAIN inheritance_map :
          /\ c \in DOMAIN inheritance_map'
          /\ inheritance_map'[c] = inheritance_map[c]]_vars

\* The hops from c up inheritance_map to a class with no recorded superclass.
RECURSIVE ChainLength(_)
ChainLength(c) ==
    IF c \in DOMAIN inheritance_map THEN 1 + ChainLength(inheritance_map[c]) ELSE 0

\* C5: no record holds a DIT or NOC while the walk over the files goes
\* on, and at the end every record holds the DIT and NOC of the maps as the
\* whole walk left them.
C5_MetricsAfterWalk ==
    /\ phase \in {"walk", "file"} =>
          \A c \in DOMAIN class_info :
              ~HasKey(class_info[c], "DIT") /\ ~HasKey(class_info[c], "NOC")
    /\ phase = "done" =>
          \A c \in DOMAIN class_info :
              /\ class_info[c].DIT = ChainLength(c)
              /\ class_info[c].NOC = Len(Get2(children_map, c))

\* C5's case: A was declared before B, its superclass, and B extends Ext.
C5_Witness ==
    /\ phase = "done"
    /\ order = <<"A", "B">>
    /\ inheritance_map = [A |-> "B", B |-> ExternalName]
    /\ class_info["A"].DIT = 2
    /\ class_info["B"].NOC = 1

\* C7: while DIT and NOC are computed, inheritance_map and children_map do
\* not change.
C7_MapsReadOnlyInQuery ==
    [][(phase = "query" \/ phase = "dit") =>
          (inheritance_map' = inheritance_map /\ children_map' = children_map)]_vars

\* C12: the LOC recorded for a class is the count of the non-blank,
\* non-comment lines of that class's own text (code[typeIdx], the text of
\* the declaration being processed), whatever else its file declares.
C12_LOCOfOwnText ==
    [][(phase = "file" /\ typeIdx' = typeIdx + 1) =>
          \A name \in DOMAIN class_info' :
             (name \notin DOMAIN class_info
                 \/ class_info'[name] # class_info[name]) =>
                class_info'[name].LOC = calculate_LOC(code[typeIdx])]_vars

\* C13: every emitted record agrees with the graph: its Superclass field is
\* what inheritance_map holds for its name (None when it holds nothing), and
\* its DIT is 0 exactly when its Superclass field is None.
C13_RecordMatchesGraph ==
    phase = "done" =>
        \A name \in DOMAIN output[1].classes :
           /\ output[1].classes[name].Superclass = Get(inheritance_map, name)
           /\ (output[1].classes[name].DIT = 0)
                 <=> (output[1].classes[name].Superclass = None)

\* ------------------------------------------------------ DatabaseHandler
\* How a call ended: it returned, or it raised.
Call(op, raised) == [op |-> op, raised |-> raised]

\* Line 157: _orm.Session(bind=self.engine). block tells what became of the
\* get_session block the session was yielded to, if it was yielded.
Session(bind) == [bind |-> bind, closed |-> FALSE, block |-> "none"]

\* Lines 98-111 raise when the section is missing: load_config at line 191
\* the first time, self.config.get at line 99 afterwards.
ConnectRaises == engine = NoEngine /\ ~has_section

\* connect made to create an engine at every call.
connect_Unguarded(e, n) == <<n + 1, n + 1>>

\* Lines 97-116: <<self.engine, engines made>> after connect returns.
connect(e, n) == IF e # NoEngine THEN <<e, n>> ELSE <<n + 1, n + 1>>

\* Lines 187-188: self.config after connect was called.
load_config(e, c) == IF e # NoEngine THEN c ELSE TRUE

\* Lines 150-157.
create_session(ss, e) == Append(ss, Session(e))

\* Lines 118-131: the session closed is self.session, when there is one.
rollback_and_close(ss, s) ==
    IF s # NoSession THEN [ss EXCEPT ![s].closed = TRUE] ELSE ss

DBInit ==
    /\ phase = "db_idle"
    /\ use_context_manager \in BOOLEAN
    /\ has_section \in BOOLEAN
    /\ engine = NoEngine
    /\ config = FALSE
    /\ session = NoSession
    /\ engines = 0
    /\ sessions = <<>>
    /\ yielded = NoSession
    /\ caller = ""
    /\ returned = NoCall
    /\ files = <<>>
    /\ fileIdx = 1
    /\ code = <<>>
    /\ typeIdx = 1
    /\ ntypes = 0
    /\ declared = {}
    /\ class_info = EmptyDict
    /\ order = <<>>
    /\ inheritance_map = EmptyDict
    /\ children_map = EmptyDict
    /\ queryIdx = 1
    /\ ditCls = None
    /\ depth = 0
    /\ output = <<>>
    /\ ditArg = None
    /\ ditResult = EmptyDict
    /\ cid = None
    /\ metrics = None
    /\ records = <<>>
    /\ agg = None

analyzerVars ==
    <<files, fileIdx, code, typeIdx, ntypes, declared, class_info, order,
      queryIdx, output, mapVars, ditVars, fnVars, metVars, aggVars>>

\* Lines 92-116: connect called directly.
Connect ==
    /\ phase = "db_idle"
    /\ config' = load_config(engine, config)
    /\ IF ConnectRaises
       THEN /\ returned' = Call("connect", TRUE)
            /\ UNCHANGED <<engine, engines>>
       ELSE /\ engine' = connect(engine, engines)[1]
            /\ engines' = connect(engine, engines)[2]
            /\ returned' = Call("connect", FALSE)
    /\ UNCHANGED <<phase, session, use_context_manager, has_section, sessions,
                   yielded, caller, analyzerVars>>

\* Lines 150-157: create_session called directly.
CreateSession ==
    /\ phase = "db_idle"
    /\ Len(sessions) < MaxSessions
    /\ sessions' = create_session(sessions, engine)
    /\ returned' = Call("create_session", FALSE)
    /\ UNCHANGED <<phase, engine, config, session, use_context_manager,
                   has_section, engines, yielded, caller, analyzerVars>>

\* Lines 34-47: __enter__. With use_context_manager the new session becomes
\* self.session; without it the session is returned and not kept.
Enter ==
    /\ phase = "db_idle"
    /\ Len(sessions) < MaxSessions
    /\ config' = load_config(engine, config)
    /\ IF ConnectRaises
       THEN /\ returned' = Call("__enter__", TRUE)
            /\ UNCHANGED <<engine, engines, sessions, session>>
       ELSE /\ engine' = connect(engine, engines)[1]
            /\ engines' = connect(engine, engines)[2]
            /\ sessions' = create_session(sessions, engine')
            /\ session' = IF use_context_manager THEN Len(sessions')
                          ELSE session
            /\ returned' = Call("__enter__", FALSE)
    /\ UNCHANGED <<phase, use_context_manager, has_section, yielded, caller,
                   analyzerVars>>

\* Lines 49-71: __exit__. With use_context_manager it does nothing; without
\* it, rollback_and_close and engine.dispose(), which empties the engine's
\* connection pool and leaves self.engine as it is.
Exit ==
    /\ phase = "db_idle"
    /\ sessions' = IF use_context_manager THEN sessions
                   ELSE rollback_and_close(sessions, session)
    /\ returned' = Call("__exit__", FALSE)
    /\ UNCHANGED <<phase, engine, config, session, use_context_manager,
                   has_section, engines, yielded, caller, analyzerVars>>

\* Lines 141-144: get_session up to its yield, entered by a with statement
\* of the caller (the test at lines 57-58) or of execute_query (line 172).
GetSessionEnter ==
    /\ phase = "db_idle"
    /\ Len(sessions) < MaxSessions
    /\ config' = load_config(engine, config)
    /\ \E by \in {"get_session", "execute_query"} :
          IF ConnectRaises
          THEN /\ returned' = Call(by, TRUE)
               /\ UNCHANGED <<phase, engine, engines, sessions, yielded, caller>>
          ELSE /\ engine' = connect(engine, engines)[1]
               /\ engines' = connect(engine, engines)[2]
               /\ sessions' = [create_session(sessions, engine')
                                  EXCEPT ![Len(sessions) + 1].block = "open"]
               /\ yielded' = Len(sessions) + 1
               /\ caller' = by
               /\ phase' = "db_block"
               /\ UNCHANGED returned
    /\ UNCHANGED <<session, use_context_manager, has_section, analyzerVars>>

\* Line 145: the block ended normally (in execute_query by one of the
\* returns at lines 179 and 181) and the generator goes on after its yield:
\* self.rollback_and_close().
BlockReturns ==
    /\ phase = "db_block"
    /\ sessions' = [rollback_and_close(sessions, session)
                       EXCEPT ![yielded].block = "exited"]
    /\ returned' = Call(caller, FALSE)
    /\ yielded' = NoSession
    /\ caller' = ""
    /\ phase' = "db_idle"
    /\ UNCHANGED <<engine, config, session, use_context_manager, has_section,
                   engines, analyzerVars>>

\* Lines 146-148: the block raised (in execute_query, session.execute or
\* session.commit did): session.rollback() and the exception goes on.
BlockRaises ==
    /\ phase = "db_block"
    /\ sessions' = [sessions EXCEPT ![yielded].block = "raised"]
    /\ returned' = Call(caller, TRUE)
    /\ yielded' = NoSession
    /\ caller' = ""
    /\ phase' = "db_idle"
    /\ UNCHANGED <<engine, config, session, use_context_manager, has_section,
                   engines, analyzerVars>>

DBNext ==
    \/ Connect
    \/ CreateSession
    \/ Enter
    \/ Exit
    \/ GetSessionEnter
    \/ BlockReturns
    \/ BlockRaises

DBSpec == DBInit /\ [][DBNext]_vars

\* C14: every session that get_session yielded is closed once its block has
\* ended normally.
C14_YieldedSessionClosed ==
    \A i \in 1..Len(sessions) :
       sessions[i].block = "exited" => sessions[i].closed

\* C15: when connect has returned without error self.engine is set; once it
\* is set no call (connect, __enter__, get_session or any other) replaces it
\* or makes another engine; and every session made from then on is bound
\* to it.
C15_ConnectIdempotent ==
    /\ [](returned = Call("connect", FALSE) => engine # NoEngine)
    /\ [][engine # NoEngine => (engine' = engine /\ engines' = engines)]_vars
    /\ [][\A i \in (Len(sessions) + 1)..Len(sessions') :
             engine' # NoEngine => sessions'[i].bind = engine']_vars

\* C15's case: connect has returned again after __enter__ and get_session
\* had connected and made their sessions.
C15_Witness ==
    /\ returned = Call("connect", FALSE)
    /\ engines = 1
    /\ session # NoSession
    /\ Len(sessions) >= 2
    /\ \E i \in 1..Len(sessions) : sessions[i].block = "exited"
    /\ \A i \in 1..Len(sessions) : sessions[i].bind = engine
====
